---- MODULE Spec2Model ----
(***************************************************************************)
(* Model of the session/token runtime of the Abacus dashboard client       *)
(* (backend/index/static/index/app.js): the token store, decodeJwt, the    *)
(* api() helper with its proactive and reactive refresh, the debounced     *)
(* handleUnauthorizedResponse(), login() and the faction directory cache.  *)
(*                                                                         *)
(* JavaScript is single threaded: every action below is one run-to-        *)
(* completion task, i.e. the code between two suspension points (await).   *)
(* An `await rf.json()` / `await res.json()` that directly follows a       *)
(* successful fetch inside api() touches no shared state between the two   *)
(* suspensions, so the response and its body are delivered in one step.    *)
(***************************************************************************)
EXTENDS Integers, Sequences, FiniteSets, TLC

\* ---------------------------------------------------------------- bounds
NumCalls == 2          \* api()/getFactionDirectory() invocations per run
MaxNow == 1500         \* the clock (ms) stops advancing here
MaxLogins == 1         \* login form submissions per run
MaxSaves == 1          \* factions created through the faction form
MaxDirNow == 60000     \* the clock (ms) stops here when the directory is watched
MaxInputLen == 3       \* characters typed into a tag editor
MaxListLen == 2        \* factions in a fetched list when names are resolved
NumKeys == 2           \* profiles that may be members or candidates of a roster
MaxSearches == 1       \* candidate searches in flight at a time
MaxCommits == 2        \* commit requests sent from one modal
NumTargets == 1        \* ids of each type that may be targets of an operation

\* ------------------------------------------------------ program constants
MsPerSec == 1000       \* decodedToken.exp * 1000
RefreshMarginMs == 60000
DebounceMs == 1500
DirectoryTtlMs == 60000
FreshExp == 3600       \* exp (s) of tokens the server issues in this model

Calls == 1..NumCalls

\* ------------------------------------------------------------ token text
\* A string is modelled by its '.'-separated segments; '' is EmptyStr.
\* A segment says what the decoder finds in it.
EmptyStr == <<>>
Seg(kind, exp, id) == [kind |-> kind, exp |-> exp, id |-> id]
OpaqueSeg == Seg("opaque", 0, 0)
\* header.payload.signature with a JSON payload {exp: e, jti: id}
AccessTok(e, id) == <<OpaqueSeg, Seg("obj", e, id), OpaqueSeg>>
RefreshTok(id) == <<OpaqueSeg, Seg("opaque", 0, id), OpaqueSeg>>
\* strings that are not well-formed JWTs
NoDotTok == <<OpaqueSeg>>                                  \* "abc"
NotB64Tok == <<OpaqueSeg, Seg("notb64", 0, 0), OpaqueSeg>> \* atob throws
NotJsonTok == <<OpaqueSeg, Seg("notjson", 0, 0), OpaqueSeg>> \* JSON.parse throws
NullTok == <<OpaqueSeg, Seg("null", 0, 0), OpaqueSeg>>     \* payload is JSON null
NoExpTok == <<OpaqueSeg, Seg("noexp", 0, 0), OpaqueSeg>>   \* payload {} without exp

\* exp claims (s) just below, at and above the refresh margin of a page loaded
\* at time 0
InitExps == {59, 60, 62}
InitAccess ==
  {EmptyStr, NoDotTok, NotB64Tok, NotJsonTok, NullTok, NoExpTok}
    \cup {AccessTok(e, 0) : e \in InitExps}
InitRefresh == {EmptyStr, RefreshTok(0)}

\* decodeJwt: null (isNull) when split('.')[1] is undefined, atob or
\* JSON.parse throws (caught), or the payload is JSON null; otherwise the
\* parsed payload.  It never throws.
Null == [isNull |-> TRUE, hasExp |-> FALSE, exp |-> 0]
decodeJwt(token) ==
  IF Len(token) < 2 THEN Null
  ELSE LET p == token[2] IN
       CASE p.kind = "obj" -> [isNull |-> FALSE, hasExp |-> TRUE, exp |-> p.exp]
         [] p.kind = "noexp" -> [isNull |-> FALSE, hasExp |-> FALSE, exp |-> 0]
         [] OTHER -> Null

\* line 85: decodedToken && decodedToken.exp * 1000 < Date.now() + 60000
\* (undefined * 1000 is NaN, and NaN < x is false)
IsExpiringLax(decoded, t) ==
  ~decoded.isNull /\ decoded.hasExp /\ decoded.exp * MsPerSec <= t + RefreshMarginMs
IsExpiring(decoded, t) ==
  ~decoded.isNull /\ decoded.hasExp /\ decoded.exp * MsPerSec < t + RefreshMarginMs

\* ------------------------------------------------------- directory cache
EmptyCache == [list |-> <<>>, byName |-> <<>>, byId |-> <<>>, timestamp |-> 0]
Faction(id, name) == [id |-> id, name |-> name]
\* The body the server returns for GET /api/scales/factions/ once g factions
\* have been created through the faction form: the initial factions and the
\* created ones.
\* (names are strings, modelled as their characters)
Alpha == <<"A", "l", "p", "h", "a">>
Beta == <<"B", "e", "t", "a">>
NewName(i) == <<"N", "e", "w">> \o [j \in 1..i |-> "x"]
ServerList(g) ==
  <<Faction(1, Alpha), Faction(2, Beta)>> \o [i \in 1..g |-> Faction(2 + i, NewName(i))]

\* lines 296-303: both indices are rebuilt from the fetched list; a later
\* item with the same key overwrites an earlier one; nameless items are skipped;
\* byId is keyed by String(item.id)
LastIndex(S) == CHOOSE i \in S : \A j \in S : j <= i
BuildSnapshot(list, t) ==
  LET named == {i \in DOMAIN list : list[i].name # EmptyStr}
      names == {list[i].name : i \in named}
      ids == {ToString(list[i].id) : i \in named}
  IN [list |-> list,
      byName |-> [n \in names |-> list[LastIndex({i \in named : list[i].name = n})]],
      byId |-> [k \in ids |-> list[LastIndex({i \in named : ToString(list[i].id) = k})]],
      timestamp |-> t]

VARIABLES
  now,                   \* Date.now()
  tokens,                \* localStorage abx_access / abx_refresh
  sessionInvalidated,    \* the debounce flag (line 29)
  timers,                \* deadlines of pending setTimeout callbacks (line 171)
  tier,                  \* the visible tier (switchTier)
  notices,               \* 'session expired' messages shown so far
  switches,              \* switchTier('login') calls made by invalidation so far
  factionDirectoryCache, \* line 281
  calls,                 \* one record per api()/getFactionDirectory() invocation
  issued,                \* tokens issued by the server so far
  logins,                \* successful logins so far
  serverGen,             \* factions created on the server so far
  resolved,              \* a resolveFactionName() call: its argument and result
  screen,                \* the manage modal that is or was open, "none" if none
  rosterState,           \* line 3129: the working map of the roster draft
  candidateCache,        \* line 3130
  searchTerm,            \* line 3131
  dom,                   \* what the modal's two lists show
  saveDisabled,          \* saveBtn.disabled
  modal,                 \* the modal: open or not, and its requests in flight
  baseline,              \* observer: data.members as the server sent them
  sent,                  \* observer: the commit requests sent, and the last payload
  win,                   \* observer: the current debounce window
  lastRefresh            \* observer: the refresh response processed last

vars == <<now, tokens, sessionInvalidated, timers, tier, notices, switches,
          factionDirectoryCache, calls, issued, logins, serverGen, resolved, win,
          lastRefresh, screen, rosterState, candidateCache, searchTerm, dom,
          saveDisabled, modal, baseline, sent>>

\* the state of the views that api() and the session code never touch
draftVars ==
  <<screen, rosterState, candidateCache, searchTerm, dom, saveDisabled, modal, baseline,
    sent>>
viewVars == <<resolved, draftVars>>

\* ----------------------------------------------------------- shared state
Shared ==
  [tokens |-> tokens, sessionInvalidated |-> sessionInvalidated, timers |-> timers,
   tier |-> tier, notices |-> notices, switches |-> switches,
   cache |-> factionDirectoryCache]

SetShared(g) ==
  /\ tokens' = g.tokens
  /\ sessionInvalidated' = g.sessionInvalidated
  /\ timers' = g.timers
  /\ tier' = g.tier
  /\ notices' = g.notices
  /\ switches' = g.switches
  /\ factionDirectoryCache' = g.cache

\* tokens.clear(): both items removed, the getters then return ''
ClearedTokens == [access |-> EmptyStr, refresh |-> EmptyStr]

\* lines 158-171 with a step left out
InvalidateKeepingRefresh(g, t) ==
  [g EXCEPT !.sessionInvalidated = TRUE,
            !.tokens = [@ EXCEPT !.access = EmptyStr],
            !.cache = EmptyCache,
            !.tier = "login",
            !.switches = @ + 1,
            !.notices = @ + 1,
            !.timers = @ \cup {t + DebounceMs}]
\* lines 158-171: what handleUnauthorizedResponse() does at time t once past
\* its guard
InvalidateNow(g, t) ==
  [g EXCEPT !.sessionInvalidated = TRUE,
            !.tokens = ClearedTokens,
            !.cache = EmptyCache,
            !.tier = "login",
            !.switches = @ + 1,
            !.notices = @ + 1,
            !.timers = @ \cup {t + DebounceMs}]

\* the same without line 157
handleUnauthorizedNoDebounce(g, t) == InvalidateNow(g, t)
\* handleUnauthorizedResponse() (lines 156-172) at time t
handleUnauthorizedResponse(g, t) ==
  IF g.sessionInvalidated THEN g ELSE InvalidateNow(g, t)

\* Observer of the debounce window: a window opens when a call turns the flag on;
\* messages and tier switches are counted from there, `later` says that a
\* further call was made in the window and `changed` that such a call changed
\* some shared state.
NoWindow == [notices |-> 0, switches |-> 0, later |-> FALSE, changed |-> FALSE]
WinAfter(w, g, t) ==
  LET h == handleUnauthorizedResponse(g, t) IN
  IF ~g.sessionInvalidated /\ h.sessionInvalidated
  THEN [notices |-> h.notices - g.notices, switches |-> h.switches - g.switches,
        later |-> FALSE, changed |-> FALSE]
  ELSE [notices |-> w.notices + (h.notices - g.notices),
        switches |-> w.switches + (h.switches - g.switches),
        later |-> TRUE, changed |-> w.changed \/ h # g]

\* no resolveFactionName() call is watched
NotResolved == [pc |-> "none", value |-> EmptyStr, result |-> EmptyStr]

\* ------------------------------------------------------------ call records
\* what api() hands its caller: a response (the first one or the retry's) or a
\* rejection
NoResult == [type |-> "none", status |-> 0, of |-> "", msg |-> ""]
Response(status, of) == [type |-> "response", status |-> status, of |-> of, msg |-> ""]
Thrown(msg) == [type |-> "error", status |-> 0, of |-> "", msg |-> msg]

\* pc, caller, dpc, path, opts, accessToken, res, t0 and gen0 are the
\* invocation's own state (its position, arguments and locals; t0 is `now` of
\* line 289 and gen0 the server's state when the directory request was sent).
\* The other fields are its history: the token and time it started with, the
\* order of its events (trace), the data requests it sent (reqs), the outcome
\* and token of its proactive refresh (rf, rfTok) and of its reactive refresh
\* (rrf, rrfTok), what it handed its caller (result), how often it called
\* handleUnauthorizedResponse (hur) and, of a getFactionDirectory call, the
\* argument (force) and the cache it found at line 290 (seen).
\* caller is "api" (a view), "dir" (getFactionDirectory called by a view),
\* "save" (the faction form's save handler) or "savedir" (getFactionDirectory
\* called by the save handler).
IdleCall ==
  [pc |-> "idle", caller |-> "none", dpc |-> "none", path |-> "", opts |-> "",
   accessToken |-> EmptyStr, res |-> 0, t0 |-> 0, gen0 |-> 0,
   force |-> FALSE, seen |-> EmptyCache,
   tok0 |-> EmptyStr, at0 |-> 0, trace |-> <<>>, reqs |-> <<>>, rf |-> "none",
   rfTok |-> EmptyStr, rrf |-> "none", rrfTok |-> EmptyStr, result |-> NoResult, hur |-> 0]

\* The history is kept for one invocation, the observed one; the others run
\* the same code and keep only what their remaining steps read.
Observed == 1
Live(k) ==
  IF k.dpc \in {"wait", "json"}
  THEN [IdleCall EXCEPT !.pc = k.pc, !.caller = k.caller, !.dpc = k.dpc, !.t0 = k.t0,
                        !.gen0 = k.gen0]
  ELSE IF k.caller = "save" /\ k.pc # "done"
  THEN [IdleCall EXCEPT !.pc = k.pc, !.caller = k.caller]
  ELSE [IdleCall EXCEPT !.pc = k.pc]
Keep(c, k) == IF c = Observed THEN k ELSE Live(k)

Request(path, opts, auth) == [path |-> path, opts |-> opts, auth |-> auth]
Ok(status) == status >= 200 /\ status <= 299
DataStatuses == {200, 401, 403, 500}
\* the (path, opts) a view may pass to api()
Inputs == {<<"/api/index/profiles/", "GET">>, <<"/api/scales/factions/", "POST">>}
DirectoryPath == "/api/scales/factions/"

\* ------------------------------------------------ the faction roster draft
\* openManageMembersModal (lines 3116-3463). rosterState is the working map,
\* candidateCache the search result on offer; api() does not touch either, so
\* a request made from the modal is modelled by its outcome: an ok response, a
\* response that is not ok, or a throw.
Keys == 1..NumKeys
\* line 3117 / data.affiliation_options, in their order; a server may also send
\* an affiliation that is not among the options
AffiliationOptions == <<"Leader", "Member">>
Affiliations == {AffiliationOptions[i] : i \in DOMAIN AffiliationOptions}
ServerAffiliations == Affiliations \cup {"Retired"}
\* lines 3172-3175
normaliseAffiliation(value) ==
  IF value \in Affiliations THEN value ELSE AffiliationOptions[1]

\* Map.set, Map.delete
MapSet(map, key, value) ==
  [k \in DOMAIN map \cup {key} |-> IF k = key THEN value ELSE map[k]]
MapDelete(map, key) == [k \in DOMAIN map \ {key} |-> map[k]]
EmptyMap == <<>>

\* lines 3272-3280 and 3402-3410 (full_name and aliases are display only)
Entry(id, aff, original, isNew, isRemoved) ==
  [profile_id |-> id, affiliation |-> aff, originalAffiliation |-> original,
   isNew |-> isNew, isRemoved |-> isRemoved]

\* line 3181
activeMembers(rs) == {k \in DOMAIN rs : ~rs[k].isRemoved}

\* hasChanges with the update test left out
hasChangesNoUpdates(rs) ==
  \E k \in DOMAIN rs :
     \/ rs[k].isNew /\ ~rs[k].isRemoved
     \/ ~rs[k].isNew /\ rs[k].isRemoved
\* lines 3182-3189
hasChanges(rs) ==
  \E k \in DOMAIN rs :
     \/ rs[k].isNew /\ ~rs[k].isRemoved
     \/ ~rs[k].isNew /\ rs[k].isRemoved
     \/ /\ ~rs[k].isNew /\ ~rs[k].isRemoved
        /\ rs[k].affiliation # rs[k].originalAffiliation

\* lines 3420-3436: the three buckets of the commit, as sets (the arrays are in
\* the map's order); the last branch takes every entry the first two leave
Payload(rs) ==
  LET added == {k \in DOMAIN rs : rs[k].isNew /\ ~rs[k].isRemoved}
      removed == {k \in DOMAIN rs \ added : rs[k].isRemoved /\ ~rs[k].isNew}
      rest == (DOMAIN rs \ added) \ removed
  IN [add |-> {[profile_id |-> k, affiliation |-> rs[k].affiliation] : k \in added},
      remove |-> removed,
      updates |-> {[profile_id |-> k, affiliation |-> rs[k].affiliation] :
                     k \in {x \in rest : rs[x].affiliation # rs[x].originalAffiliation}}]
\* line 3438
IsEmptyPayload(p) == p.add = {} /\ p.updates = {} /\ p.remove = {}
NoneSent == [n |-> 0, last |-> [add |-> {}, remove |-> {}, updates |-> {}]]

\* no manage modal is open
ModalClosed ==
  [open |-> FALSE, load |-> "none", searches |-> 0, commits |-> 0]
\* lines 3135-3170: the modal as it opens; loadInitial() is under way
ModalOpened ==
  [open |-> TRUE, load |-> "wait", searches |-> 0, commits |-> 0]
NoDom == [members |-> {}, candidates |-> {}]
\* the member list drawn from every entry of the map, tombstones included
renderMembersAll(rs, d) == [d EXCEPT !.members = DOMAIN rs]
\* lines 3209-3231: the member list shows the entries that are not removed
renderMembers(rs, d) == [d EXCEPT !.members = activeMembers(rs)]
\* lines 3233-3259: the candidate list shows the cache, once a term is typed
renderCandidates(cc, term, d) ==
  [d EXCEPT !.candidates = IF term = "" THEN {} ELSE DOMAIN cc]
\* lines 3191-3196
updateSaveState(rs) == ~hasChanges(rs)

\* the state of the draft when no modal is open
DraftClosed ==
  /\ screen = "none"
  /\ rosterState = EmptyMap
  /\ candidateCache = EmptyMap
  /\ searchTerm = ""
  /\ dom = NoDom
  /\ saveDisabled = TRUE
  /\ modal = ModalClosed
  /\ baseline = EmptyMap
  /\ sent = NoneSent

Init ==
  /\ now = 0
  /\ tokens \in [access : InitAccess, refresh : InitRefresh]
  /\ sessionInvalidated = FALSE
  /\ timers = {}
  /\ tier = IF tokens.access # EmptyStr THEN "abacus" ELSE "facade"
  /\ notices = 0
  /\ switches = 0
  /\ factionDirectoryCache = EmptyCache
  /\ calls = [c \in Calls |-> IdleCall]
  /\ issued = 0
  /\ logins = 0
  /\ serverGen = 0
  /\ resolved = NotResolved
  /\ win = NoWindow
  /\ lastRefresh = [token |-> EmptyStr, overwritten |-> FALSE]
  /\ DraftClosed

\* ------------------------------------------------------------------ api()
\* n handleUnauthorizedResponse() calls in a row at time t, with the observer
HurStep(s, t) ==
  [g |-> handleUnauthorizedResponse(s.g, t), w |-> WinAfter(s.w, s.g, t)]
Hur(n, t) ==
  LET s0 == [g |-> Shared, w |-> win]
      s1 == HurStep(s0, t)
  IN IF n = 0 THEN s0 ELSE IF n = 1 THEN s1 ELSE HurStep(s1, t)

\* a step's effect on the shared state
Effect(s) == SetShared(s.g) /\ win' = s.w

\* observer: the token a refresh response delivered last, and whether
\* tokens.access was written by anything else since
NoRefreshProcessed ==
  lastRefresh' = [lastRefresh EXCEPT !.overwritten = @ \/ tokens'.access # tokens.access]
RefreshProcessed(t) ==
  lastRefresh' = [token |-> t, overwritten |-> FALSE]

\* the store skipped when the stored token is already a fresh one
StoreAccessUnlessFresh(tk, t, at) ==
  IF decodeJwt(tk.access).hasExp /\ ~IsExpiring(decodeJwt(tk.access), at)
  THEN tk ELSE [tk EXCEPT !.access = t]
\* lines 101 and 137: tokens.access = data.access
StoreAccess(tk, t, at) == [tk EXCEPT !.access = t]

\* the first request sent with the token read at line 80
StaleRequest(k, accessToken) == Request(k.path, k.opts, k.tok0)
\* lines 114-117: Authorization is set iff accessToken is non-empty
\* (EmptyStr as auth: no Authorization header)
FirstRequest(k, accessToken) == Request(k.path, k.opts, accessToken)

\* the retry sent with the local accessToken
RetryWithLocalToken(k, tk) == Request(k.path, k.opts, k.accessToken)
\* lines 138-140: the retry, built from the same path and opts, with
\* Authorization read back from tokens.access
RetryRequest(k, tk) == Request(k.path, k.opts, tk.access)

\* every 4xx taken for an authorization failure
IsClientError(status) == status >= 400 /\ status <= 499
\* line 119
IsUnauthorized(status) == status = 401

\* what the refresh endpoint may answer: non-2xx, 2xx without access, a network
\* or body error (a throw), or 2xx with a new access token
RefreshOutcomes == {"non2xx", "noaccess", "threw", "ok"}

\* the callers that are getFactionDirectory
DirCallers == {"dir", "savedir"}
IsOkResult(result) == result.type = "response" /\ Ok(result.status)

\* api() returns or throws; getFactionDirectory (lines 293-295) goes on only
\* with an ok response
Finish(k, result) ==
  [k EXCEPT !.pc = "done", !.result = result,
            !.dpc = IF k.caller \in DirCallers
                    THEN (IF IsOkResult(result) THEN "json" ELSE "done")
                    ELSE "none"]

\* the save handlers with their catch left out
CaughtNothing(k, g) == g
\* lines 3071 and 3105: try { await getFactionDirectory(true); } catch {
\* invalidateFactionDirectory(); } -- getFactionDirectory throws when api()
\* throws and when the response is not ok (line 294)
Caught(k, g) ==
  IF k.pc = "done" /\ k.caller = "savedir" /\ ~IsOkResult(k.result)
  THEN [g EXCEPT !.cache = EmptyCache]
  ELSE g

\* invocation c goes on as k after n handleUnauthorizedResponse() calls
Land(c, k, n) ==
  LET s == Hur(n, now) IN
  /\ Effect([g |-> Caught(k, s.g), w |-> s.w])
  /\ calls' = [calls EXCEPT ![c] = Keep(c, k)]

\* lines 80-117, up to the first await; base holds what the caller has set
ApiFrom(c, base, path, opts, gen) ==
  LET tok == tokens.access
      dir == base.caller \in DirCallers
      k0 == [base EXCEPT !.path = path, !.opts = opts,
                         !.dpc = IF dir THEN "wait" ELSE "none",
                         !.t0 = IF dir THEN now ELSE 0,
                         !.gen0 = IF dir THEN gen ELSE 0,
                         !.accessToken = tok,
                         !.tok0 = tok, !.at0 = now, !.trace = <<"check">>]
  IN
  IF tok # EmptyStr /\ IsExpiring(decodeJwt(tok), now)
  THEN IF tokens.refresh = EmptyStr
       THEN Land(c, Finish([k0 EXCEPT !.trace = @ \o <<"expired">>, !.hur = 1],
                           Thrown("Session expired.")), 1)
       ELSE Land(c, [k0 EXCEPT !.pc = "prefresh", !.trace = @ \o <<"expired", "prefresh">>], 0)
  ELSE Land(c, [k0 EXCEPT !.pc = "data", !.trace = @ \o <<"data">>,
                          !.reqs = <<FirstRequest(k0, tok)>>], 0)

ApiEntry(c, caller, path, opts) ==
  ApiFrom(c, [IdleCall EXCEPT !.caller = caller], path, opts, serverGen)

\* api() hands k.result to its caller. The save handler (lines 3068-3071 and
\* 3100-3105) goes on after an ok response, which says that the server has
\* stored the faction: it calls getFactionDirectory(true) at once.
Settle(c, k, n) ==
  IF k.pc = "done" /\ k.caller = "save" /\ IsOkResult(k.result)
  THEN /\ ApiFrom(c, [IdleCall EXCEPT !.caller = "savedir", !.force = TRUE,
                                       !.seen = factionDirectoryCache],
                  DirectoryPath, "GET", serverGen + 1)
       /\ serverGen' = serverGen + 1
  ELSE /\ Land(c, k, n)
       /\ serverGen' = serverGen

\* the unobserved invocations are started in the order of their numbers
MayStart(c) ==
  /\ calls[c].pc = "idle"
  /\ \A d \in Calls \ {Observed} : d < c => calls[d].pc # "idle"

\* a view calls api(path, opts)
StartApi(c) ==
  /\ MayStart(c)
  /\ \E in \in Inputs : ApiEntry(c, "api", in[1], in[2])
  /\ UNCHANGED viewVars
  /\ UNCHANGED <<now, issued, logins, serverGen>>
  /\ NoRefreshProcessed

\* a failed refresh handed to the caller as a response, the way the reactive
\* path does
ProactiveFailQuiet(k, outcome) ==
  Finish([k EXCEPT !.rf = outcome, !.hur = @ + (IF outcome = "threw" THEN 1 ELSE 2)],
         Response(401, "first"))
\* a failed refresh that lets the request go out with the old token
ProactiveFailOpen(k, outcome) ==
  [k EXCEPT !.pc = "data", !.rf = outcome, !.trace = @ \o <<"data">>,
            !.reqs = <<FirstRequest(k, k.accessToken)>>]
\* lines 95-98 and 103-110: the refresh failed; a throw inside the try is caught
\* at line 107, which invalidates once more and rethrows
ProactiveFail(k, outcome) ==
  Finish([k EXCEPT !.rf = outcome, !.hur = @ + (IF outcome = "threw" THEN 1 ELSE 2)],
         Thrown(IF outcome = "threw" THEN "Failed to fetch" ELSE "Session expired."))

\* lines 91-117: the proactive refresh request settles
ProactiveRefreshResponse(c) ==
  /\ calls[c].pc = "prefresh"
  /\ \E outcome \in RefreshOutcomes :
       LET k == calls[c]
           t == AccessTok(FreshExp, issued + 1)
           k1 == [k EXCEPT !.rf = "ok", !.rfTok = t, !.accessToken = t]
       IN
       IF outcome = "ok"
       THEN /\ Effect([g |-> [Shared EXCEPT !.tokens = StoreAccess(tokens, t, now)], w |-> win])
            /\ calls' = [calls EXCEPT ![c] = Keep(c,
                 [k1 EXCEPT !.pc = "data", !.trace = @ \o <<"data">>,
                            !.reqs = <<FirstRequest(k1, t)>>])]
            /\ issued' = issued + 1
            /\ RefreshProcessed(t)
       ELSE /\ Land(c, ProactiveFail(k, outcome), IF outcome = "threw" THEN 1 ELSE 2)
            /\ issued' = issued
            /\ NoRefreshProcessed
  /\ UNCHANGED viewVars
  /\ UNCHANGED <<now, logins, serverGen>>

\* lines 117-127 and 153: the response to the data request, or its rejection
\* (status 0: fetch threw, which api() does not catch)
DataResponse(c) ==
  /\ calls[c].pc = "data"
  /\ \E status \in DataStatuses \cup {0} :
       LET k == [calls[c] EXCEPT !.res = status] IN
       IF status = 0
       THEN Settle(c, Finish(k, Thrown("Failed to fetch")), 0)
       ELSE IF ~IsUnauthorized(status)
       THEN Settle(c, Finish(k, Response(status, "first")), 0)
       ELSE IF tokens.refresh = EmptyStr
       THEN Settle(c, Finish([k EXCEPT !.hur = @ + 1], Response(status, "first")), 1)
       ELSE Settle(c, [k EXCEPT !.pc = "rrefresh", !.trace = @ \o <<"rrefresh">>], 0)
  /\ UNCHANGED viewVars
  /\ UNCHANGED <<now, issued, logins>>
  /\ NoRefreshProcessed

\* lines 127-150: the reactive refresh request settles
ReactiveRefreshResponse(c) ==
  /\ calls[c].pc = "rrefresh"
  /\ \E outcome \in RefreshOutcomes :
       LET k == calls[c]
           t == AccessTok(FreshExp, issued + 1)
           tk == StoreAccess(tokens, t, now)
       IN
       IF outcome = "ok"
       THEN /\ Effect([g |-> [Shared EXCEPT !.tokens = tk], w |-> win])
            /\ calls' = [calls EXCEPT ![c] = Keep(c,
                 [k EXCEPT !.pc = "retry", !.rrf = "ok", !.rrfTok = t,
                           !.trace = @ \o <<"retry">>,
                           !.reqs = @ \o <<RetryRequest(k, tk)>>])]
            /\ issued' = issued + 1
            /\ RefreshProcessed(t)
       ELSE /\ Land(c, Finish([k EXCEPT !.rrf = outcome, !.hur = @ + 1],
                                Response(k.res, "first")), 1)
            /\ issued' = issued
            /\ NoRefreshProcessed
  /\ UNCHANGED viewVars
  /\ UNCHANGED <<now, logins, serverGen>>

\* lines 140-149: the retry settles (status 0: fetch threw, caught at line 147)
RetryResponse(c) ==
  /\ calls[c].pc = "retry"
  /\ \E status \in DataStatuses \cup {0} :
       LET k == calls[c] IN
       IF status = 0
       THEN Settle(c, Finish([k EXCEPT !.hur = @ + 1], Response(k.res, "first")), 1)
       ELSE IF status = 401
       THEN Settle(c, Finish([k EXCEPT !.hur = @ + 1], Response(status, "retry")), 1)
       ELSE Settle(c, Finish(k, Response(status, "retry")), 0)
  /\ UNCHANGED viewVars
  /\ UNCHANGED <<now, issued, logins>>
  /\ NoRefreshProcessed

\* ------------------------------------------------- getFactionDirectory()
\* a snapshot served for one millisecond too long
IsFreshLax(cache, force, t) ==
  ~force /\ Len(cache.list) > 0 /\ (t - cache.timestamp) <= DirectoryTtlMs
\* line 290
IsFresh(cache, force, t) ==
  ~force /\ Len(cache.list) > 0 /\ (t - cache.timestamp) < DirectoryTtlMs

\* lines 288-293: a fresh non-empty snapshot is returned as it is (result type
\* "cached": what is returned is the cache the call saw), else api()
GetFactionDirectory(c) ==
  /\ MayStart(c)
  /\ \E force \in BOOLEAN :
       LET base == [IdleCall EXCEPT !.caller = "dir", !.force = force,
                                    !.seen = factionDirectoryCache]
       IN
       IF IsFresh(factionDirectoryCache, force, now)
       THEN Land(c, [base EXCEPT !.pc = "done", !.dpc = "done", !.at0 = now,
                                 !.result = [NoResult EXCEPT !.type = "cached"]], 0)
       ELSE ApiFrom(c, base, DirectoryPath, "GET", serverGen)
  /\ UNCHANGED viewVars
  /\ UNCHANGED <<now, issued, logins, serverGen>>
  /\ NoRefreshProcessed

\* the snapshot replaced field by field, the list first
StoreListFirst(cache, list, t) == [cache EXCEPT !.list = list, !.timestamp = t]
\* line 303: factionDirectoryCache = { list, byName, byId, timestamp: now }
StoreSnapshot(cache, list, t) == BuildSnapshot(list, t)

\* lines 295-304: the body arrives; the snapshot is replaced as a whole, stamped
\* with the time the call started. The body is the server's list at some moment
\* between the request and the response.
DirectoryStore(c) ==
  /\ calls[c].dpc = "json"
  /\ \E g \in calls[c].gen0..serverGen :
       factionDirectoryCache' =
         StoreSnapshot(factionDirectoryCache, ServerList(g), calls[c].t0)
  /\ calls' = [calls EXCEPT ![c] = Keep(c, [calls[c] EXCEPT !.dpc = "done"])]
  /\ UNCHANGED viewVars
  /\ UNCHANGED <<now, tokens, sessionInvalidated, timers, tier, notices, switches,
                 issued, logins, serverGen, win>>
  /\ NoRefreshProcessed

\* lines 3052-3068 and 3098-3100: a faction form is saved, which starts with
\* api(url, {method, body})
SavePath == "/api/scales/factions/"
StartSave(c) ==
  /\ MayStart(c)
  /\ serverGen < MaxSaves
  /\ \A d \in Calls : calls[d].caller # "save" \/ calls[d].pc = "done"
  /\ ApiEntry(c, "save", SavePath, "POST")
  /\ UNCHANGED viewVars
  /\ UNCHANGED <<now, issued, logins, serverGen>>
  /\ NoRefreshProcessed

\* ------------------------------------------------------------ environment
\* a callback that leaves the flag as it is
TimerFireKeepsFlag ==
  /\ \E d \in timers :
       /\ d <= now
       /\ timers' = timers \ {d}
  /\ UNCHANGED viewVars
  /\ UNCHANGED <<now, tokens, sessionInvalidated, tier, notices, switches,
                 factionDirectoryCache, calls, issued, logins, serverGen, win>>
  /\ NoRefreshProcessed
\* line 171: a due timer callback runs
TimerFire ==
  /\ \E d \in timers :
       /\ d <= now
       /\ timers' = timers \ {d}
  /\ sessionInvalidated' = FALSE
  /\ UNCHANGED viewVars
  /\ UNCHANGED <<now, tokens, tier, notices, switches, factionDirectoryCache, calls,
                 issued, logins, serverGen, win>>
  /\ NoRefreshProcessed

\* time passes, a debounce period at a time
Tick ==
  /\ now + DebounceMs <= MaxNow
  /\ now' = now + DebounceMs
  /\ UNCHANGED viewVars
  /\ UNCHANGED <<tokens, sessionInvalidated, timers, tier, notices, switches,
                 factionDirectoryCache, calls, issued, logins, serverGen, win>>
  /\ NoRefreshProcessed

\* line 406: the keyhole reveals the login tier
KeyholeClick ==
  /\ tier = "facade"
  /\ tier' = "login"
  /\ UNCHANGED viewVars
  /\ UNCHANGED <<now, tokens, sessionInvalidated, timers, notices, switches,
                 factionDirectoryCache, calls, issued, logins, serverGen, win>>
  /\ NoRefreshProcessed

\* lines 382-397 and 412-428: the login form was submitted from the login tier
\* and the token endpoint answers 2xx (a rejected login changes nothing)
Login ==
  /\ tier = "login"
  /\ logins < MaxLogins
  /\ logins' = logins + 1
  /\ tokens' = [access |-> AccessTok(FreshExp, issued + 1), refresh |-> RefreshTok(issued + 1)]
  /\ issued' = issued + 1
  /\ tier' = "abacus"
  /\ UNCHANGED viewVars
  /\ UNCHANGED <<now, sessionInvalidated, timers, notices, switches,
                 factionDirectoryCache, calls, serverGen, win>>
  /\ NoRefreshProcessed

Next ==
  \/ \E c \in Calls : StartApi(c)
  \/ \E c \in Calls : GetFactionDirectory(c)
  \/ \E c \in Calls : ProactiveRefreshResponse(c)
  \/ \E c \in Calls : DataResponse(c)
  \/ \E c \in Calls : ReactiveRefreshResponse(c)
  \/ \E c \in Calls : RetryResponse(c)
  \/ \E c \in Calls : DirectoryStore(c)
  \/ TimerFire
  \/ Tick
  \/ KeyholeClick
  \/ Login

Spec == Init /\ [][Next]_vars

\* ------------------------------------------------- the debounce over time
\* time passes, also beyond MaxNow while a timer is pending
TickOn ==
  /\ now + DebounceMs <= MaxNow \/ \E d \in timers : d > now
  /\ now' = now + DebounceMs
  /\ UNCHANGED viewVars
  /\ UNCHANGED <<tokens, sessionInvalidated, timers, tier, notices, switches,
                 factionDirectoryCache, calls, issued, logins, serverGen, win>>
  /\ NoRefreshProcessed

\* a page loaded with a stored session whose access token is about to expire
LiveInit ==
  /\ Init
  /\ tokens = [access |-> AccessTok(59, 0), refresh |-> RefreshTok(0)]

LiveNext ==
  \/ \E c \in Calls : StartApi(c)
  \/ \E c \in Calls : ProactiveRefreshResponse(c)
  \/ \E c \in Calls : DataResponse(c)
  \/ \E c \in Calls : ReactiveRefreshResponse(c)
  \/ \E c \in Calls : RetryResponse(c)
  \/ TimerFire
  \/ TickOn
  \/ Login

\* time passes and a due timer callback is run (the event loop)
LiveSpec == LiveInit /\ [][LiveNext]_vars /\ WF_vars(TickOn) /\ WF_vars(TimerFire)

\* ------------------------------------------- the directory cache over time
\* the directory's time to live passes
TickTtl ==
  /\ now + DirectoryTtlMs <= MaxDirNow
  /\ now' = now + DirectoryTtlMs
  /\ UNCHANGED viewVars
  /\ UNCHANGED <<tokens, sessionInvalidated, timers, tier, notices, switches,
                 factionDirectoryCache, calls, issued, logins, serverGen, win>>
  /\ NoRefreshProcessed

\* lines 482-495: the logout button; logout() is tokens.clear() (line 399)
Logout ==
  /\ tier = "abacus"
  /\ tokens' = ClearedTokens
  /\ tier' = "facade"
  /\ UNCHANGED viewVars
  /\ UNCHANGED <<now, sessionInvalidated, timers, notices, switches,
                 factionDirectoryCache, calls, issued, logins, serverGen, win>>
  /\ NoRefreshProcessed

\* a page loaded with a stored session: an access token that is good for a
\* while and a refresh token
DirInit ==
  /\ Init
  /\ tokens = [access |-> AccessTok(62, 0), refresh |-> RefreshTok(0)]

DirNext ==
  \/ \E c \in Calls : GetFactionDirectory(c)
  \/ \E c \in Calls : StartSave(c)
  \/ \E c \in Calls : ProactiveRefreshResponse(c)
  \/ \E c \in Calls : DataResponse(c)
  \/ \E c \in Calls : ReactiveRefreshResponse(c)
  \/ \E c \in Calls : RetryResponse(c)
  \/ \E c \in Calls : DirectoryStore(c)
  \/ TimerFire
  \/ Tick
  \/ TickTtl
  \/ KeyholeClick
  \/ Login
  \/ Logout

DirSpec == DirInit /\ [][DirNext]_vars

\* --------------------------------------------------- resolveFactionName()
\* String.prototype.trim(): the string without its leading and trailing
\* white space
IsSpace(ch) == ch = " "
Trim(str) ==
  LET inked == {i \in DOMAIN str : ~IsSpace(str[i])} IN
  IF inked = {} THEN EmptyStr
  ELSE SubSeq(str, CHOOSE i \in inked : \A j \in inked : i <= j, LastIndex(inked))
\* String.prototype.toLowerCase() on the letters of the model
LowerChar(ch) == CASE ch = "A" -> "a" [] ch = "B" -> "b" [] OTHER -> ch
ToLowerCase(str) == [i \in DOMAIN str |-> LowerChar(str[i])]

\* the scan made before the index lookup
ResolveScanFirst(value, cache) ==
  LET name == Trim(value)
      hits == {i \in DOMAIN cache.list :
                 ToLowerCase(cache.list[i].name) = ToLowerCase(name)}
  IN IF name = EmptyStr THEN EmptyStr
     ELSE IF hits # {} THEN cache.list[CHOOSE i \in hits : \A j \in hits : i <= j].name
     ELSE name
\* lines 267-279 (`value || ''` and a missing name are the empty string)
resolveFactionName(value, cache) ==
  LET name == Trim(value)
      hits == {i \in DOMAIN cache.list :
                 ToLowerCase(cache.list[i].name) = ToLowerCase(name)}
  IN IF name = EmptyStr THEN EmptyStr
     ELSE IF name \in DOMAIN cache.byName /\ cache.byName[name].name # EmptyStr
     THEN cache.byName[name].name
     ELSE IF hits # {} THEN cache.list[CHOOSE i \in hits : \A j \in hits : i <= j].name
     ELSE name

\* the strings of at most n characters over S
StringsUpTo(S, n) == UNION {[1..m -> S] : m \in 0..n}
\* what a user may type into a tag editor (line 2836)
InputChars == {"a", "A", "B", " "}
ResolveInputs == StringsUpTo(InputChars, MaxInputLen)
\* the names a faction may carry in a fetched list (none, and spellings that
\* differ in case only)
ResolveNames == {EmptyStr, <<"a">>, <<"A">>, <<"a", "b">>, <<"A", "b">>, <<"a", "B">>}
ResolveLists ==
  UNION {{[i \in 1..m |-> Faction(i, names[i])] : names \in [1..m -> ResolveNames]} :
           m \in 0..MaxListLen}

\* a tag is typed while the cache is empty or holds a fetched list
ResolveInit ==
  /\ now = 0
  /\ tokens = [access |-> AccessTok(62, 0), refresh |-> RefreshTok(0)]
  /\ sessionInvalidated = FALSE
  /\ timers = {}
  /\ tier = "abacus"
  /\ notices = 0
  /\ switches = 0
  /\ factionDirectoryCache \in {EmptyCache} \cup {BuildSnapshot(list, 0) : list \in ResolveLists}
  /\ calls = [c \in Calls |-> IdleCall]
  /\ issued = 0
  /\ logins = 0
  /\ serverGen = 0
  /\ resolved \in {[NotResolved EXCEPT !.pc = "typed", !.value = v] : v \in ResolveInputs}
  /\ win = NoWindow
  /\ lastRefresh = [token |-> EmptyStr, overwritten |-> FALSE]
  /\ DraftClosed

\* line 2837: addTag calls resolveFactionName(raw)
Resolve ==
  /\ resolved.pc = "typed"
  /\ resolved' = [resolved EXCEPT !.pc = "resolved",
                                  !.result = resolveFactionName(resolved.value,
                                                                factionDirectoryCache)]
  /\ UNCHANGED <<now, tokens, sessionInvalidated, timers, tier, notices, switches,
                 factionDirectoryCache, calls, issued, logins, serverGen, win,
                 lastRefresh, draftVars>>

ResolveNext == Resolve

ResolveSpec == ResolveInit /\ [][ResolveNext]_vars

\* what the server may send as data.members and as data.candidates
MemberLists == UNION {[S -> ServerAffiliations] : S \in SUBSET Keys}
CandidateLists == UNION {[S -> Affiliations] : S \in SUBSET Keys}

sessionVars ==
  <<now, tokens, sessionInvalidated, timers, tier, notices, switches,
    factionDirectoryCache, calls, issued, logins, serverGen, win, lastRefresh>>

\* the two lists as drawn from rs, cc and term; a closed modal has no lists
Render(rs, cc, term, open) ==
  IF open THEN renderCandidates(cc, term, renderMembers(rs, dom)) ELSE NoDom

\* lines 3267-3281: the baseline as applyInitialData enters it into rosterState
BaselineEntries(members) ==
  [k \in DOMAIN members |->
     Entry(k, normaliseAffiliation(members[k]), normaliseAffiliation(members[k]),
           FALSE, FALSE)]

\* lines 3261-3298: the response to loadInitial() arrives; an ok response is
\* applied by applyInitialData
LoadInitialResponse ==
  /\ screen = "roster"
  /\ modal.load = "wait"
  /\ modal' = [modal EXCEPT !.load = "done"]
  /\ \/ \E members \in MemberLists :
          /\ rosterState' = BaselineEntries(members)
          /\ candidateCache' = EmptyMap
          /\ searchTerm' = ""
          /\ dom' = Render(rosterState', EmptyMap, "", modal.open)
          /\ saveDisabled' = updateSaveState(rosterState')
          /\ baseline' = members
     \/ UNCHANGED <<rosterState, candidateCache, searchTerm, dom, saveDisabled, baseline>>
  /\ UNCHANGED <<sessionVars, resolved, screen, sent>>

\* lines 3300-3331: the search box was edited and its timer ran out:
\* loadCandidates(term), up to its await
LoadCandidates ==
  /\ screen = "roster"
  /\ modal.open
  /\ \E term \in {"", "q"} :
       /\ searchTerm' = term
       /\ IF term = ""
          THEN /\ candidateCache' = EmptyMap
               /\ dom' = Render(rosterState, EmptyMap, term, TRUE)
               /\ modal' = modal
          ELSE /\ modal.searches < MaxSearches
               /\ modal' = [modal EXCEPT !.searches = @ + 1]
               /\ UNCHANGED <<candidateCache, dom>>
  /\ UNCHANGED <<sessionVars, resolved, screen, rosterState, saveDisabled, baseline, sent>>

\* lines 3311-3322: the candidates that are not active members
FilterCandidates(incoming, rs) ==
  [k \in {x \in DOMAIN incoming : ~(x \in DOMAIN rs /\ ~rs[x].isRemoved)} |->
     normaliseAffiliation(incoming[k])]

\* lines 3308-3324: a search response arrives
SearchResponse ==
  /\ screen = "roster"
  /\ modal.searches > 0
  /\ modal' = [modal EXCEPT !.searches = @ - 1]
  /\ \/ \E incoming \in CandidateLists :
          /\ candidateCache' = FilterCandidates(incoming, rosterState)
          /\ dom' = Render(rosterState, candidateCache', searchTerm, modal.open)
     \/ UNCHANGED <<candidateCache, dom>>
  /\ UNCHANGED <<sessionVars, resolved, screen, rosterState, searchTerm, saveDisabled,
                 baseline, sent>>

\* lines 3350-3358: the affiliation select of a listed member changes
ChangeMemberAffiliation ==
  /\ screen = "roster"
  /\ modal.open
  /\ \E k \in dom.members, a \in Affiliations :
       IF k \notin DOMAIN rosterState
       THEN UNCHANGED <<rosterState, saveDisabled>>
       ELSE /\ rosterState' = [rosterState EXCEPT ![k].affiliation = a]
            /\ saveDisabled' = updateSaveState(rosterState')
  /\ UNCHANGED <<sessionVars, resolved, screen, candidateCache, searchTerm, dom, modal,
                 baseline, sent>>

\* a new member tombstoned like a baseline member
RemoveByTombstone(rs, k) == [rs EXCEPT ![k].isRemoved = TRUE]
\* lines 3365-3369
RemoveEntry(rs, k) ==
  IF rs[k].isNew THEN MapDelete(rs, k) ELSE [rs EXCEPT ![k].isRemoved = TRUE]

\* lines 3360-3373: the remove button of a listed member
RemoveMember ==
  /\ screen = "roster"
  /\ modal.open
  /\ \E k \in dom.members :
       IF k \notin DOMAIN rosterState
       THEN UNCHANGED <<rosterState, dom, saveDisabled>>
       ELSE /\ rosterState' = RemoveEntry(rosterState, k)
            /\ dom' = renderMembers(rosterState', dom)
            /\ saveDisabled' = updateSaveState(rosterState')
  /\ UNCHANGED <<sessionVars, resolved, screen, candidateCache, searchTerm, modal,
                 baseline, sent>>

\* lines 3375-3386: the affiliation select of a listed candidate changes
ChangeCandidateAffiliation ==
  /\ screen = "roster"
  /\ modal.open
  /\ \E k \in dom.candidates, a \in Affiliations :
       /\ k \in DOMAIN candidateCache
       /\ candidateCache' = [candidateCache EXCEPT ![k] = a]
  /\ UNCHANGED <<sessionVars, resolved, screen, rosterState, searchTerm, dom, saveDisabled,
                 modal, baseline, sent>>

\* the add that enters every key as a new entry
AddAlwaysNew(rs, k, aff) == MapSet(rs, k, Entry(k, aff, aff, TRUE, FALSE))
\* lines 3399-3411
AddEntry(rs, k, aff) ==
  IF k \in DOMAIN rs
  THEN [rs EXCEPT ![k].isRemoved = FALSE, ![k].affiliation = aff]
  ELSE MapSet(rs, k, Entry(k, aff, aff, TRUE, FALSE))

\* lines 3388-3418: the add button of a listed candidate; the select next to it
\* shows the candidate's affiliation (lines 3252 and 3385)
AddCandidate ==
  /\ screen = "roster"
  /\ modal.open
  /\ \E k \in dom.candidates :
       IF k \notin DOMAIN candidateCache
       THEN UNCHANGED <<rosterState, candidateCache, dom, saveDisabled>>
       ELSE /\ rosterState' = AddEntry(rosterState, k, candidateCache[k])
            /\ candidateCache' = MapDelete(candidateCache, k)
            /\ dom' = Render(rosterState', candidateCache', searchTerm, TRUE)
            /\ saveDisabled' = updateSaveState(rosterState')
  /\ UNCHANGED <<sessionVars, resolved, screen, searchTerm, modal, baseline, sent>>

\* lines 3420-3447: the commit button, which takes clicks while it is enabled
SaveClick ==
  /\ screen = "roster"
  /\ modal.open
  /\ ~saveDisabled
  /\ LET p == Payload(rosterState) IN
     IF IsEmptyPayload(p)
     THEN UNCHANGED <<saveDisabled, modal, sent>>
     ELSE /\ sent.n < MaxCommits
          /\ saveDisabled' = TRUE
          /\ modal' = [modal EXCEPT !.commits = @ + 1]
          /\ sent' = [n |-> sent.n + 1, last |-> p]
  /\ UNCHANGED <<sessionVars, resolved, screen, rosterState, candidateCache, searchTerm,
                 dom, baseline>>

\* the response handled without the finally block
CommitResponseNoFinally ==
  /\ screen = "roster"
  /\ modal.commits > 0
  /\ \/ /\ modal' = [modal EXCEPT !.commits = @ - 1, !.open = FALSE]
        /\ dom' = NoDom
     \/ /\ modal' = [modal EXCEPT !.commits = @ - 1]
        /\ dom' = dom
  /\ UNCHANGED <<sessionVars, resolved, screen, rosterState, candidateCache, searchTerm,
                 saveDisabled, baseline, sent>>
\* lines 3448-3461: the commit's response arrives; an ok response closes the
\* modal (and so does a failure that invalidates the session, line 167), any
\* other failure leaves it open; the button is enabled again whatever the outcome
CommitResponse ==
  /\ screen = "roster"
  /\ modal.commits > 0
  /\ saveDisabled' = FALSE
  /\ \/ /\ modal' = [modal EXCEPT !.commits = @ - 1, !.open = FALSE]
        /\ dom' = NoDom
     \/ /\ modal' = [modal EXCEPT !.commits = @ - 1]
        /\ dom' = dom
  /\ UNCHANGED <<sessionVars, resolved, screen, rosterState, candidateCache, searchTerm,
                 baseline, sent>>

\* the ABORT button (data-action="close-modal", line 478)
CloseModal ==
  /\ screen # "none"
  /\ modal.open
  /\ modal' = [modal EXCEPT !.open = FALSE]
  /\ dom' = NoDom
  /\ UNCHANGED <<sessionVars, resolved, screen, rosterState, candidateCache, searchTerm,
                 saveDisabled, baseline, sent>>

\* ------------------------------------------- operation personnel and targets
\* openManagePersonnelModal (lines 4783-4925) and openManageTargetsModal (lines
\* 4928-5082) keep state.assigned in rosterState; the personnel modal keeps
\* state.candidates in candidateCache, the targets modal only draws them. The
\* server offers as candidates only what it does not hold as assigned itself.
DefaultRole == "Field Agent"
Roles == {DefaultRole, "Handler"}
AssignedLists == UNION {[S -> Roles] : S \in SUBSET Keys}
\* line 4912
PersonnelPayload(assigned) ==
  [assignments |-> {[agent_id |-> k, role_in_op |-> assigned[k]] : k \in DOMAIN assigned}]

\* lines 4855-4867: the response to the first loadData() arrives
PersonnelLoadResponse ==
  /\ screen = "personnel"
  /\ modal.load = "wait"
  /\ modal' = [modal EXCEPT !.load = "done"]
  /\ \/ \E assigned \in AssignedLists : \E cands \in SUBSET (Keys \ DOMAIN assigned) :
          /\ rosterState' = assigned
          /\ candidateCache' = [k \in cands |-> DefaultRole]
          /\ dom' = IF modal.open THEN [members |-> DOMAIN assigned, candidates |-> cands]
                                  ELSE NoDom
          /\ baseline' = assigned
     \/ UNCHANGED <<rosterState, candidateCache, dom, baseline>>
  /\ UNCHANGED <<sessionVars, resolved, screen, searchTerm, saveDisabled, sent>>

\* lines 4869-4879: the search box was edited and its timer ran out
PersonnelSearch ==
  /\ screen = "personnel"
  /\ modal.open
  /\ \/ /\ dom' = [dom EXCEPT !.candidates = {}]
        /\ modal' = modal
     \/ /\ modal.searches < MaxSearches
        /\ modal' = [modal EXCEPT !.searches = @ + 1]
        /\ dom' = dom
  /\ UNCHANGED <<sessionVars, resolved, screen, rosterState, candidateCache, searchTerm,
                 saveDisabled, baseline, sent>>

\* lines 4855-4867: the response to loadData(query) arrives
PersonnelSearchResponse ==
  /\ screen = "personnel"
  /\ modal.searches > 0
  /\ modal' = [modal EXCEPT !.searches = @ - 1]
  /\ \/ \E cands \in SUBSET (Keys \ DOMAIN baseline) :
          /\ candidateCache' = [k \in cands |-> DefaultRole]
          /\ dom' = IF modal.open THEN [dom EXCEPT !.candidates = cands] ELSE NoDom
     \/ UNCHANGED <<candidateCache, dom>>
  /\ UNCHANGED <<sessionVars, resolved, screen, rosterState, searchTerm, saveDisabled,
                 baseline, sent>>

\* lines 4881-4888: the role input of a listed agent
PersonnelRoleInput ==
  /\ screen = "personnel"
  /\ modal.open
  /\ \E k \in dom.members, role \in Roles :
       rosterState' = IF k \in DOMAIN rosterState THEN [rosterState EXCEPT ![k] = role]
                                                  ELSE rosterState
  /\ UNCHANGED <<sessionVars, resolved, screen, candidateCache, searchTerm, dom,
                 saveDisabled, modal, baseline, sent>>

\* lines 4890-4896: the remove button of a listed agent
PersonnelRemove ==
  /\ screen = "personnel"
  /\ modal.open
  /\ \E k \in dom.members :
       /\ rosterState' = MapDelete(rosterState, k)
       /\ dom' = [dom EXCEPT !.members = DOMAIN rosterState']
  /\ UNCHANGED <<sessionVars, resolved, screen, candidateCache, searchTerm, saveDisabled,
                 modal, baseline, sent>>

\* lines 4898-4910: a listed candidate is clicked
PersonnelAdd ==
  /\ screen = "personnel"
  /\ modal.open
  /\ \E k \in dom.candidates :
       IF k \in DOMAIN rosterState
       THEN UNCHANGED <<rosterState, candidateCache, dom>>
       ELSE /\ rosterState' = MapSet(rosterState, k, DefaultRole)
            /\ candidateCache' = MapDelete(candidateCache, k)
            /\ dom' = [members |-> DOMAIN rosterState', candidates |-> DOMAIN candidateCache']
  /\ UNCHANGED <<sessionVars, resolved, screen, searchTerm, saveDisabled, modal, baseline,
                 sent>>

\* lines 4912-4915: the save button, up to the await
PersonnelSaveClick ==
  /\ screen = "personnel"
  /\ modal.open
  /\ sent.n < MaxCommits
  /\ modal' = [modal EXCEPT !.commits = @ + 1]
  /\ sent' = [n |-> sent.n + 1, last |-> PersonnelPayload(rosterState)]
  /\ UNCHANGED <<sessionVars, resolved, screen, rosterState, candidateCache, searchTerm,
                 dom, saveDisabled, baseline>>

\* lines 4915-4922: the commit's response arrives; an ok response closes the modal
PersonnelCommitResponse ==
  /\ screen = "personnel"
  /\ modal.commits > 0
  /\ \/ /\ modal' = [modal EXCEPT !.commits = @ - 1, !.open = FALSE]
        /\ dom' = NoDom
     \/ /\ modal' = [modal EXCEPT !.commits = @ - 1]
        /\ dom' = dom
  /\ UNCHANGED <<sessionVars, resolved, screen, rosterState, candidateCache, searchTerm,
                 saveDisabled, baseline, sent>>

TargetTypes == {"profile", "faction"}
\* line 5048: `${type}-${id}`
TargetKey(type, id) == <<type, id>>
TargetKeys == {TargetKey(type, id) : type \in TargetTypes, id \in 1..NumTargets}
\* lines 5010-5011: the entries of the targets in S
TargetEntries(S) == [k \in S |-> [id |-> k[2], type |-> k[1]]]
\* lines 5058-5069
TargetsPayload(assigned) ==
  [profile_ids |-> {assigned[k].id : k \in {x \in DOMAIN assigned : assigned[x].type = "profile"}},
   faction_ids |-> {assigned[k].id : k \in {x \in DOMAIN assigned : assigned[x].type = "faction"}}]

\* lines 5003-5020: the response to the first loadData() arrives
TargetsLoadResponse ==
  /\ screen = "targets"
  /\ modal.load = "wait"
  /\ modal' = [modal EXCEPT !.load = "done"]
  /\ \/ \E assigned \in SUBSET TargetKeys : \E cands \in SUBSET (TargetKeys \ assigned) :
          /\ rosterState' = TargetEntries(assigned)
          /\ dom' = IF modal.open THEN [members |-> assigned, candidates |-> cands]
                                  ELSE NoDom
          /\ baseline' = TargetEntries(assigned)
     \/ UNCHANGED <<rosterState, dom, baseline>>
  /\ UNCHANGED <<sessionVars, resolved, screen, candidateCache, searchTerm, saveDisabled,
                 sent>>

\* lines 5022-5032: the search box was edited and its timer ran out
TargetsSearch ==
  /\ screen = "targets"
  /\ modal.open
  /\ \/ /\ dom' = [dom EXCEPT !.candidates = {}]
        /\ modal' = modal
     \/ /\ modal.searches < MaxSearches
        /\ modal' = [modal EXCEPT !.searches = @ + 1]
        /\ dom' = dom
  /\ UNCHANGED <<sessionVars, resolved, screen, rosterState, candidateCache, searchTerm,
                 saveDisabled, baseline, sent>>

\* lines 5003-5020: the response to loadData(query) arrives
TargetsSearchResponse ==
  /\ screen = "targets"
  /\ modal.searches > 0
  /\ modal' = [modal EXCEPT !.searches = @ - 1]
  /\ \/ \E cands \in SUBSET (TargetKeys \ DOMAIN baseline) :
          dom' = IF modal.open THEN [dom EXCEPT !.candidates = cands] ELSE NoDom
     \/ dom' = dom
  /\ UNCHANGED <<sessionVars, resolved, screen, rosterState, candidateCache, searchTerm,
                 saveDisabled, baseline, sent>>

\* lines 5034-5040: the remove button of a listed target
TargetsRemove ==
  /\ screen = "targets"
  /\ modal.open
  /\ \E k \in dom.members :
       /\ rosterState' = MapDelete(rosterState, k)
       /\ dom' = [dom EXCEPT !.members = DOMAIN rosterState']
  /\ UNCHANGED <<sessionVars, resolved, screen, candidateCache, searchTerm, saveDisabled,
                 modal, baseline, sent>>

\* lines 5042-5056: a listed candidate is clicked
TargetsAdd ==
  /\ screen = "targets"
  /\ modal.open
  /\ \E k \in dom.candidates :
       IF k \in DOMAIN rosterState
       THEN UNCHANGED <<rosterState, dom>>
       ELSE /\ rosterState' = MapSet(rosterState, k, [id |-> k[2], type |-> k[1]])
            /\ dom' = [members |-> DOMAIN rosterState', candidates |-> dom.candidates \ {k}]
  /\ UNCHANGED <<sessionVars, resolved, screen, candidateCache, searchTerm, saveDisabled,
                 modal, baseline, sent>>

\* lines 5058-5072: the save button, up to the await
TargetsSaveClick ==
  /\ screen = "targets"
  /\ modal.open
  /\ sent.n < MaxCommits
  /\ modal' = [modal EXCEPT !.commits = @ + 1]
  /\ sent' = [n |-> sent.n + 1, last |-> TargetsPayload(rosterState)]
  /\ UNCHANGED <<sessionVars, resolved, screen, rosterState, candidateCache, searchTerm,
                 dom, saveDisabled, baseline>>

\* lines 5072-5079: the commit's response arrives; an ok response closes the modal
TargetsCommitResponse ==
  /\ screen = "targets"
  /\ modal.commits > 0
  /\ \/ /\ modal' = [modal EXCEPT !.commits = @ - 1, !.open = FALSE]
        /\ dom' = NoDom
     \/ /\ modal' = [modal EXCEPT !.commits = @ - 1]
        /\ dom' = dom
  /\ UNCHANGED <<sessionVars, resolved, screen, rosterState, candidateCache, searchTerm,
                 saveDisabled, baseline, sent>>

\* one of the three manage modals has just been opened (the roster's save
\* button is drawn disabled, line 3160; the other two have no such state)
DraftInit ==
  /\ now = 0
  /\ tokens = [access |-> AccessTok(62, 0), refresh |-> RefreshTok(0)]
  /\ sessionInvalidated = FALSE
  /\ timers = {}
  /\ tier = "abacus"
  /\ notices = 0
  /\ switches = 0
  /\ factionDirectoryCache = EmptyCache
  /\ calls = [c \in Calls |-> IdleCall]
  /\ issued = 0
  /\ logins = 0
  /\ serverGen = 0
  /\ resolved = NotResolved
  /\ win = NoWindow
  /\ lastRefresh = [token |-> EmptyStr, overwritten |-> FALSE]
  /\ screen \in {"roster", "personnel", "targets"}
  /\ rosterState = EmptyMap
  /\ candidateCache = EmptyMap
  /\ searchTerm = ""
  /\ dom = NoDom
  /\ saveDisabled = (screen = "roster")
  /\ modal = ModalOpened
  /\ baseline = EmptyMap
  /\ sent = NoneSent

DraftNext ==
  \/ LoadInitialResponse
  \/ LoadCandidates
  \/ SearchResponse
  \/ ChangeMemberAffiliation
  \/ RemoveMember
  \/ ChangeCandidateAffiliation
  \/ AddCandidate
  \/ SaveClick
  \/ CommitResponse
  \/ CloseModal
  \/ PersonnelLoadResponse
  \/ PersonnelSearch
  \/ PersonnelSearchResponse
  \/ PersonnelRoleInput
  \/ PersonnelRemove
  \/ PersonnelAdd
  \/ PersonnelSaveClick
  \/ PersonnelCommitResponse
  \/ TargetsLoadResponse
  \/ TargetsSearch
  \/ TargetsSearchResponse
  \/ TargetsRemove
  \/ TargetsAdd
  \/ TargetsSaveClick
  \/ TargetsCommitResponse

DraftSpec == DraftInit /\ [][DraftNext]_vars

\* ================================================================ claims
\* The claims about `every api() call` are stated of the observed invocation,
\* which runs against every interleaving of the other invocations, the timer,
\* the clock and the login.
Obs == calls[Observed]
Started(k) == k.trace # <<>>
Has(k, e) == \E i \in DOMAIN k.trace : k.trace[i] = e
Last(seq) == seq[Len(seq)]
\* the branch of line 85 was taken
EnteredProactive(k) == Len(k.trace) >= 2 /\ k.trace[2] = "expired"
\* ... and led to a refresh request or, without a refresh token, to invalidation,
\* before any data request
ProactivePath(k) ==
  /\ EnteredProactive(k)
  /\ \/ Len(k.trace) >= 3 /\ k.trace[3] = "prefresh"
     \/ k.trace = <<"check", "expired">> /\ k.pc = "done" /\ k.hur >= 1 /\ k.reqs = <<>>
\* refresh requests the invocation has sent
Refreshes(k) == Cardinality({i \in DOMAIN k.trace : k.trace[i] \in {"prefresh", "rrefresh"}})

\* C1: for an api() call whose stored access token decodes to a payload with an
\* exp claim, the proactive refresh path (a refresh request, or invalidation when
\* no refresh token is stored) is entered before the data request iff
\* exp*1000 < now + 60000; otherwise the data request is the first request sent.
C1_RefreshIffExpiring ==
  LET k == Obs
      d == decodeJwt(k.tok0)
  IN (Started(k) /\ k.tok0 # EmptyStr /\ ~d.isNull /\ d.hasExp) =>
       /\ ProactivePath(k) <=> (d.exp * 1000 < k.at0 + 60000)
       /\ (d.exp * 1000 >= k.at0 + 60000) =>
            /\ k.trace[2] = "data"
            /\ k.reqs[1].auth = k.tok0
            /\ k.rf = "none"
\* the boundary: exp*1000 = now + 60000, and the token is sent as it is
C1_Witness ==
  /\ Obs.tok0 = AccessTok(60, 0)
  /\ Obs.at0 = 0
  /\ Obs.trace = <<"check", "data">>
  /\ Obs.reqs[1].auth = Obs.tok0

\* C2: an api() call whose stored access token is non-empty but cannot be decoded
\* takes the refresh path before the data request is sent.
C2_UndecodableTakesRefreshPath ==
  LET k == Obs IN
  (Started(k) /\ k.tok0 # EmptyStr /\ decodeJwt(k.tok0).isNull) => ProactivePath(k)

\* C3: while the debounce flag is set, i.e. inside one debounce window, however
\* many handleUnauthorizedResponse() calls the interleaved api() calls have made,
\* exactly one message was shown and exactly one switch to the login tier made
\* since the window opened, and no call after the first changed any state.
C3_OneNoticePerWindow ==
  sessionInvalidated => (win.notices = 1 /\ win.switches = 1 /\ ~win.changed)
\* two invocations have both called it within 1.5 s of the start
C3_Witness ==
  /\ sessionInvalidated
  /\ win.later
  /\ now < DebounceMs
  /\ Obs.hur = 1
  /\ notices = 1
  /\ tier = "login"

\* the step in which the observed api() call finishes on a non-2xx refresh response
RefreshRejectedStep ==
  /\ calls[Observed].pc \in {"prefresh", "rrefresh"}
  /\ calls'[Observed].pc = "done"
  /\ "non2xx" \in {calls'[Observed].rf, calls'[Observed].rrf}
SessionCleared ==
  /\ tokens' = ClearedTokens
  /\ factionDirectoryCache' = EmptyCache
  /\ tier' = "login"
C5_AtMostOneRetry ==
  LET k == Obs IN
  /\ Len(k.reqs) <= 2
  /\ Len(k.reqs) >= 1 => (k.reqs[1].path = k.path /\ k.reqs[1].opts = k.opts)
  /\ Len(k.reqs) = 2 =>
       /\ k.res = 401
       /\ k.rrf = "ok"
       /\ k.rrfTok # EmptyStr
       /\ k.reqs[2] = Request(k.path, k.opts, k.rrfTok)
       /\ Last(k.trace) = "retry"
       /\ k.trace[Len(k.trace) - 1] = "rrefresh"
       /\ k.pc \in {"retry", "done"}
  /\ (k.pc = "done" /\ k.result = Response(401, "retry")) =>
       (Len(k.reqs) = 2 /\ k.hur = 1 /\ Refreshes(k) <= 2)
C5_Witness ==
  /\ Obs.pc = "done"
  /\ Obs.result = Response(401, "retry")
  /\ Len(Obs.reqs) = 2
  /\ Obs.reqs[2].auth # Obs.reqs[1].auth

\* the event orders one api() call can show
FullTraces ==
  {<<"check", "data", "rrefresh", "retry">>,
   <<"check", "expired">>,
   <<"check", "expired", "prefresh", "data", "rrefresh", "retry">>}
IsPrefix(s, t) == Len(s) <= Len(t) /\ \A i \in DOMAIN s : s[i] = t[i]
\* C6: the events of one api() call occur in the order proactive check, optional
\* proactive refresh, data request, optional reactive refresh, optional single
\* retry; the data request follows a proactive refresh only when that refresh
\* delivered a token, the reactive refresh is started only after a 401 data
\* response, and no refresh is awaited after the retry.
C6_EventOrder ==
  LET k == Obs IN
  /\ \E t \in FullTraces : IsPrefix(k.trace, t)
  /\ (Has(k, "prefresh") /\ Has(k, "data")) => (k.rf = "ok" /\ k.reqs[1].auth = k.rfTok)
  /\ Has(k, "rrefresh") => k.res = 401
  /\ Has(k, "retry") => k.pc \in {"retry", "done"}
  /\ k.pc = "prefresh" => Last(k.trace) = "prefresh"
  /\ k.pc = "data" => Last(k.trace) = "data"
  /\ k.pc = "rrefresh" => Last(k.trace) = "rrefresh"
  /\ k.pc = "retry" => Last(k.trace) = "retry"
C6_Witness ==
  /\ Obs.pc = "done"
  /\ Obs.trace = <<"check", "expired", "prefresh", "data", "rrefresh", "retry">>

PassedFirst ==
  /\ calls[Observed].pc = "data"
  /\ calls'[Observed] # calls[Observed]
  /\ calls'[Observed].res \notin {0, 401}
PassedRetry ==
  /\ calls[Observed].pc = "retry"
  /\ calls'[Observed].pc = "done"
  /\ calls'[Observed].result.of = "retry"
  /\ calls'[Observed].result.status # 401
\* C8: on a data response whose status is not 401, api() returns that response and
\* sends nothing more, makes no invalidation call, and leaves the stored tokens,
\* the debounce flag and the directory cache as they were.
C8_OtherStatusPassesThrough ==
  [][(PassedFirst \/ PassedRetry) =>
       /\ calls'[Observed].pc = "done"
       /\ calls'[Observed].result.type = "response"
       /\ PassedFirst => calls'[Observed].result = Response(calls'[Observed].res, "first")
       /\ calls'[Observed].trace = calls[Observed].trace
       /\ calls'[Observed].reqs = calls[Observed].reqs
       /\ calls'[Observed].hur = calls[Observed].hur
       /\ tokens' = tokens
       /\ sessionInvalidated' = sessionInvalidated
       /\ timers' = timers
       /\ factionDirectoryCache' = factionDirectoryCache]_vars
C8_Witness ==
  /\ Obs.pc = "done"
  /\ Obs.result = Response(403, "first")
  /\ Obs.hur = 0
  /\ tokens.access = Obs.reqs[1].auth
  /\ Len(factionDirectoryCache.list) > 0

\* no other invocation and no login in this run
Solo == logins = 0 /\ \A d \in Calls \ {Observed} : calls[d].pc = "idle"
\* C9: a single api() call whose token expires within 60 s, whose refresh succeeds
\* and whose data request is accepted sends exactly one refresh request and one
\* data request, the latter with the new token and not the old one, and the
\* stored access token is the new one afterwards.
C9_RefreshThenOneRequest ==
  LET k == Obs IN
  (Solo /\ EnteredProactive(k) /\ k.rf = "ok" /\ k.pc = "done" /\ k.result = Response(200, "first")) =>
     /\ Refreshes(k) = 1
     /\ Len(k.reqs) = 1
     /\ k.rfTok # EmptyStr
     /\ k.rfTok # k.tok0
     /\ k.reqs[1] = Request(k.path, k.opts, k.rfTok)
     /\ tokens.access = k.rfTok
C9_Witness ==
  /\ Solo
  /\ Obs.tok0 = AccessTok(59, 0)
  /\ Obs.pc = "done"
  /\ Obs.result = Response(200, "first")
  /\ Obs.reqs = <<Request(Obs.path, Obs.opts, AccessTok(FreshExp, 1))>>
  /\ tokens.access = AccessTok(FreshExp, 1)

AllDone == \A c \in Calls : calls[c].pc = "done"
ObsDir == Obs.caller \in DirCallers
\* it was a call without force that found a non-empty list stamped less than
\* 60000 ms before
SawFresh(k) ==
  /\ ~k.force
  /\ k.seen.list # <<>>
  /\ k.at0 - k.seen.timestamp < DirectoryTtlMs
\* it returned the cache and did nothing else
ServedFromCache(k) == k.result.type = "cached" /\ k.trace = <<>> /\ k.reqs = <<>>
\* it called api() for the faction list
AskedApiForList(k) == Started(k) /\ k.path = DirectoryPath /\ k.opts = "GET"

\* C11 as claimed: a getFactionDirectory() call that finds a non-empty snapshot
\* younger than 60000 ms and is not forced returns it and sends no request; every
\* other call (forced, empty list, age >= 60000 ms) sends a request for the
\* faction list.
C11_AsClaimed ==
  (ObsDir /\ Obs.pc = "done") =>
     IF SawFresh(Obs)
     THEN ServedFromCache(Obs)
     ELSE Obs.reqs # <<>> /\ Obs.reqs[1].path = DirectoryPath
\* C11 as amended: such a call returns the cached snapshot and sends no request;
\* every other call calls api() for the faction list, and api() sends the request
\* for it unless its proactive refresh path fails first and makes the call throw.
C11_FreshIffCached ==
  ObsDir =>
     IF SawFresh(Obs)
     THEN ServedFromCache(Obs)
     ELSE /\ AskedApiForList(Obs)
          /\ \A i \in DOMAIN Obs.reqs : Obs.reqs[i].path = DirectoryPath
          /\ (Obs.pc = "done" /\ Obs.reqs = <<>>) =>
                (EnteredProactive(Obs) /\ Obs.result.type = "error")
          /\ Obs.pc = "done" => Obs.result.type # "cached"
\* a snapshot stamped 0 is served again 1500 ms later
C11_Witness ==
  /\ ObsDir
  /\ ~Obs.force
  /\ Obs.seen = BuildSnapshot(ServerList(0), 0)
  /\ Obs.at0 = DebounceMs
  /\ ServedFromCache(Obs)
  /\ Obs.pc = "done"


\* every entry of the two indices is an element of the list under its own key,
\* every named element of the list is indexed, and a cache without a list is
\* the empty snapshot
IndexedFromList(cache) ==
  /\ \A n \in DOMAIN cache.byName :
       \E i \in DOMAIN cache.list : cache.list[i] = cache.byName[n] /\ cache.list[i].name = n
  /\ \A k \in DOMAIN cache.byId :
       \E i \in DOMAIN cache.list :
          cache.list[i] = cache.byId[k] /\ ToString(cache.list[i].id) = k
  /\ \A i \in DOMAIN cache.list :
       cache.list[i].name # EmptyStr =>
          /\ cache.list[i].name \in DOMAIN cache.byName
          /\ ToString(cache.list[i].id) \in DOMAIN cache.byId
  /\ cache.list = <<>> => cache = EmptyCache
\* in this step the getFactionDirectory() call c fails: api() threw or handed it
\* a response that is not ok
FetchFails(c) ==
  /\ calls[c].dpc = "wait"
  /\ calls'[c].dpc \notin {"wait", "json"}
\* in this step a handleUnauthorizedResponse() call took effect
InvalidatedNow == ~sessionInvalidated /\ sessionInvalidated'

SaveRefetchEnds(c) ==
  /\ calls[c].caller = "savedir"
  /\ calls[c].dpc \in {"wait", "json"}
  /\ calls'[c].dpc \notin {"wait", "json"}
\* the cache after a successful save: empty, or a list the server sent after
\* it had stored the faction
FreshAfterSave(c) ==
  \/ factionDirectoryCache' = EmptyCache
  \/ \E g \in calls[c].gen0..serverGen : factionDirectoryCache'.list = ServerList(g)

\* C13: the cache is the empty snapshot after every logout, and after every
\* successful faction create/edit it is a snapshot fetched after that mutation or
\* the empty snapshot.
C13_ClearedOnLogoutAndSave ==
  [][/\ Logout => factionDirectoryCache' = EmptyCache
     /\ \A c \in Calls : SaveRefetchEnds(c) => FreshAfterSave(c)]_vars


\* -------------------------------------------- claims on resolveFactionName()
\* t is str without its leading and trailing white space
IsTrimOf(t, str) ==
  /\ \E i \in 0..Len(str) :
       /\ i + Len(t) <= Len(str)
       /\ \A j \in 1..Len(str) :
            IF j > i /\ j <= i + Len(t) THEN str[j] = t[j - i] ELSE IsSpace(str[j])
  /\ t # EmptyStr => ~IsSpace(t[1]) /\ ~IsSpace(t[Len(t)])
\* the same letters, whatever their case
SameLetter(x, y) == x = y \/ {x, y} = {"a", "A"} \/ {x, y} = {"b", "B"}
EqualIgnoringCase(s, t) ==
  Len(s) = Len(t) /\ \A i \in DOMAIN s : SameLetter(s[i], t[i])
\* what resolveFactionName(value) is to return, given the trimmed input t and
\* what is returned when nothing matches
Resolution(t, list, unmatched) ==
  IF t = EmptyStr THEN EmptyStr
  ELSE IF \E i \in DOMAIN list : list[i].name = t THEN t
  ELSE IF \E i \in DOMAIN list : EqualIgnoringCase(list[i].name, t)
  THEN LET first == CHOOSE i \in DOMAIN list :
                      /\ EqualIgnoringCase(list[i].name, t)
                      /\ \A j \in 1..(i - 1) : ~EqualIgnoringCase(list[j].name, t)
       IN list[first].name
  ELSE unmatched

BucketKeys(bucket) == {e.profile_id : e \in bucket}
\* the working entries that are not removed, with their working attributes
ActiveEntries(rs) == [k \in activeMembers(rs) |-> rs[k].affiliation]
\* a baseline with a payload applied: the removed keys leave, the added keys
\* enter, the updated keys take their new attributes
ApplyPayload(base, p) ==
  [k \in (DOMAIN base \ p.remove) \cup BucketKeys(p.add) |->
     IF \E e \in p.add : e.profile_id = k
     THEN (CHOOSE e \in p.add : e.profile_id = k).affiliation
     ELSE IF \E e \in p.updates : e.profile_id = k
          THEN (CHOOSE e \in p.updates : e.profile_id = k).affiliation
          ELSE base[k]]
\* the payload p sorts the draft rs against the baseline base as the claim says
SortedAgainst(p, rs, base) ==
  /\ p.add = {[profile_id |-> k, affiliation |-> rs[k].affiliation] :
                k \in activeMembers(rs) \ DOMAIN base}
  /\ p.remove = {k \in DOMAIN base : k \in DOMAIN rs /\ rs[k].isRemoved}
  /\ p.updates = {[profile_id |-> k, affiliation |-> rs[k].affiliation] :
                    k \in {x \in DOMAIN base \cap activeMembers(rs) :
                             rs[x].affiliation # base[x]}}
  /\ BucketKeys(p.add) \cap p.remove = {}
  /\ BucketKeys(p.add) \cap BucketKeys(p.updates) = {}
  /\ BucketKeys(p.updates) \cap p.remove = {}
  /\ ApplyPayload(base, p) = ActiveEntries(rs)

\* C15: whatever the baseline the server sent and whatever was added, removed
\* or updated since, the commit payload of the roster draft has in add the
\* non-removed entries whose key is not in the baseline, in remove the removed
\* baseline keys, in updates the non-removed baseline keys whose attributes
\* differ from the baseline's; the buckets share no key, and the payload applied
\* to the baseline gives the active entries with their current attributes.
C15_PayloadIsTheDiff ==
  screen = "roster" => SortedAgainst(Payload(rosterState), rosterState, baseline)

\* the same against the baseline as applyInitialData recorded it
C15_AgainstRecorded ==
  screen = "roster" =>
    SortedAgainst(Payload(rosterState), rosterState,
                  [k \in DOMAIN baseline |-> normaliseAffiliation(baseline[k])])


\* ---------------------------------------------------------------- C16
\* this step adds the removed baseline key k back
Restores(k) ==
  /\ screen = "roster"
  /\ k \in DOMAIN baseline \cap DOMAIN rosterState \cap DOMAIN candidateCache
  /\ rosterState[k].isRemoved
  /\ k \in DOMAIN rosterState'
  /\ ~rosterState'[k].isRemoved
\* after the step k is a baseline entry again, in updates with the attributes
\* it was added with if these differ from base[k], and in no bucket otherwise
RestoredAgainst(k, base) ==
  LET a == candidateCache[k]
      p == Payload(rosterState')
  IN /\ ~rosterState'[k].isNew
     /\ ~rosterState'[k].isRemoved
     /\ k \notin BucketKeys(p.add)
     /\ k \notin p.remove
     /\ IF a # base[k]
        THEN [profile_id |-> k, affiliation |-> a] \in p.updates
        ELSE k \notin BucketKeys(p.updates)

\* C16: a baseline key that was removed and is then added with attributes a is a
\* baseline entry that is not removed: it is in neither add nor remove, it is in
\* updates with a if a differs from its baseline attributes, and in no bucket if
\* a equals them.
C16_RestoreIsUpdateOrNothing ==
  [][\A k \in Keys : Restores(k) => RestoredAgainst(k, baseline)]_vars

\* the same against the baseline as applyInitialData recorded it
C16_AgainstRecorded ==
  [][\A k \in Keys : Restores(k) =>
       RestoredAgainst(k, [x \in DOMAIN baseline |-> normaliseAffiliation(baseline[x])])]_vars


\* ---------------------------------------------------------------- C17
\* the keys a payload names in any bucket
PayloadKeys(p) == BucketKeys(p.add) \cup BucketKeys(p.updates) \cup p.remove
\* this step removes the key k, which was added and is not in the baseline
RemovesNew(k) ==
  /\ screen = "roster"
  /\ k \notin DOMAIN baseline
  /\ k \in activeMembers(rosterState)
  /\ k \notin activeMembers(rosterState')
\* no entry of the working map is both new and removed
NoNewTombstone ==
  screen = "roster" =>
    \A k \in DOMAIN rosterState : ~(rosterState[k].isNew /\ rosterState[k].isRemoved)
\* the payload names only keys of the working map
PayloadOfTheMap ==
  screen = "roster" => PayloadKeys(Payload(rosterState)) \subseteq DOMAIN rosterState

\* C17: removing a key that was added and is not in the baseline deletes its
\* entry from the working map; a key without an entry is in no bucket of the
\* commit payload, and no reachable draft holds an entry that is new and removed.
C17_NewThenRemovedIsGone ==
  /\ [][\A k \in Keys : RemovesNew(k) => k \notin DOMAIN rosterState']_vars
  /\ []PayloadOfTheMap
  /\ []NoNewTombstone

\* a key that is not in the baseline went out in the add bucket of a commit and
\* has been removed since: the working map has no entry for it
C17_Witness ==
  /\ screen = "roster"
  /\ modal.open
  /\ sent.n > 0
  /\ \E k \in BucketKeys(sent.last.add) :
       k \notin DOMAIN baseline /\ k \notin DOMAIN rosterState


\* ---------------------------------------------------------------- C18
\* C18: in every reachable state of the roster draft, hasChanges() is true
\* exactly when the payload the save handler computes from the same working map
\* has a non-empty bucket.
C18_HasChangesIffPayload ==
  screen = "roster" => (hasChanges(rosterState) <=> ~IsEmptyPayload(Payload(rosterState)))

\* the only change is the affiliation of a baseline member: hasChanges() is true
\* by its third test alone, and the payload has that member in updates alone
C18_Witness ==
  /\ screen = "roster"
  /\ modal.open
  /\ hasChanges(rosterState)
  /\ ~hasChangesNoUpdates(rosterState)
  /\ Payload(rosterState).updates # {}


\* ---------------------------------------------------------------- C19
\* the working set is the loaded baseline: nothing added, removed or updated
RosterAsLoaded ==
  /\ DOMAIN rosterState = DOMAIN baseline
  /\ \A k \in DOMAIN rosterState :
       /\ ~rosterState[k].isNew
       /\ ~rosterState[k].isRemoved
       /\ rosterState[k].affiliation = rosterState[k].originalAffiliation
WorkingSetAsLoaded ==
  /\ modal.load = "done"
  /\ IF screen = "roster" THEN RosterAsLoaded ELSE rosterState = baseline
\* this step is a click on the modal's commit button: on the roster its handler
\* runs when the button is enabled, on the other two screens whenever the modal
\* is open; a request it issues is counted in sent
CommitIssued == sent'.n = sent.n + 1

\* C19: on each of the three manage screens, a commit attempted while the
\* working set equals the loaded baseline issues no network request.
C19_NoRequestWithoutChanges ==
  [][WorkingSetAsLoaded => ~CommitIssued]_vars

\* the roster's part of C19
C19_RosterAlone ==
  [][(screen = "roster" /\ WorkingSetAsLoaded) => ~CommitIssued]_vars


\* ---------------------------------------------------------------- C20
\* the entry of k is removed before and after this step
StaysRemoved(k) ==
  /\ k \in DOMAIN rosterState \cap DOMAIN rosterState'
  /\ rosterState[k].isRemoved
  /\ rosterState'[k].isRemoved

Adds(k) ==
  /\ screen = "roster"
  /\ k \in DOMAIN candidateCache
  /\ k \notin DOMAIN candidateCache'
  /\ modal' = modal
  /\ rosterState' # rosterState
\* k is a tombstoned baseline entry
Tombstoned(rs, k) == k \in DOMAIN rs /\ rs[k].isRemoved /\ ~rs[k].isNew
\* the two outcomes of the add of k with the attributes a
AddOutcome(k, a) ==
  /\ k \in DOMAIN rosterState'
  /\ IF Tombstoned(rosterState, k)
     THEN rosterState'[k] = [rosterState[k] EXCEPT !.isRemoved = FALSE, !.affiliation = a]
     ELSE rosterState'[k] = Entry(k, a, a, TRUE, FALSE)
  /\ \A j \in DOMAIN rosterState :
       ~rosterState[j].isNew =>
          /\ j \in DOMAIN rosterState'
          /\ ~rosterState'[j].isNew
          /\ rosterState'[j].originalAffiliation = rosterState[j].originalAffiliation

WorkingKeys ==
  IF screen = "roster" THEN activeMembers(rosterState) ELSE DOMAIN rosterState

\* C22: on every manage screen, in every reachable state, the candidate list
\* offered to the user holds no key that is present and not removed in the
\* working set.
C22_CandidatesExcludeWorkingSet ==
  screen # "none" => dom.candidates \cap WorkingKeys = {}

\* the roster's part of C22
C22_RosterAlone ==
  screen = "roster" => dom.candidates \cap WorkingKeys = {}


\* ---------------------------------------------------------------- C23
\* a step in which handleUnauthorizedResponse() is called while the flag is off
\* (the observed call counts its calls in hur)
CalledWithFlagOff ==
  /\ ~sessionInvalidated
  /\ calls'[Observed].hur > calls[Observed].hur
\* the call is effective: one more message, the tokens cleared, the flag on
EffectiveInvalidation ==
  /\ notices' = notices + 1
  /\ tokens' = ClearedTokens
  /\ sessionInvalidated'
\* the flag goes off only when the timer set 1.5 s earlier is due
FlagOffByDueTimer ==
  (sessionInvalidated /\ ~sessionInvalidated') => \E d \in timers : d <= now /\ d \notin timers'

\* C23: after an effective invalidation the flag sessionInvalidated returns to
\* false, 1.5 s later and with no further call; a handleUnauthorizedResponse()
\* call made while it is false is effective again: a new message is shown and
\* the tokens are cleared.
C23_DebounceEnds ==
  /\ sessionInvalidated ~> ~sessionInvalidated
  /\ [][FlagOffByDueTimer]_vars
  /\ [][CalledWithFlagOff => EffectiveInvalidation]_vars

\* the session has been invalidated twice, the second time by the observed
\* call after the flag had returned to false
C23_Witness ==
  /\ notices >= 2
  /\ calls[Observed].hur > 0
  /\ now >= DebounceMs


\* ---------------------------------------------------------------- C24
\* a session invalidation has cleared the tokens and nothing was stored since
ClearedByInvalidation == notices > 0 /\ tokens = ClearedTokens
\* this step is a successful login()
LoggedIn == logins' = logins + 1

\* C24: once a session invalidation has cleared the tokens, the stored access
\* and refresh tokens stay empty until the next successful login(), whatever
\* the api() calls in flight at the time of the invalidation do afterwards.
C24_ClearedUntilLogin ==
  [][ClearedByInvalidation => (tokens' = ClearedTokens \/ LoggedIn)]_vars

\* the refresh token's part of C24
C24_RefreshAlone ==
  [][ClearedByInvalidation => (tokens'.refresh = EmptyStr \/ LoggedIn)]_vars


\* ---------------------------------------------------------------- C25
\* the retry of k was sent and threw
RetryThrew(k) == Has(k, "retry") /\ k.result.type = "response" /\ k.result.of = "first"
\* in this step the observed api() call returns or throws after a terminal auth
\* failure: a missing refresh token, a failed refresh or a 401 on the retry
EndsInAuthFailure ==
  /\ calls[Observed].pc # "done"
  /\ calls'[Observed].pc = "done"
  /\ calls'[Observed].hur > 0
  /\ ~RetryThrew(calls'[Observed])

\* C25: whenever an api() call ends in a terminal auth failure, the stored
\* access and refresh tokens are empty when it returns or throws, also less than
\* 1.5 s after an earlier invalidation with a successful login() in between.
C25_AuthFailureLeavesNoTokens ==
  [][EndsInAuthFailure => tokens' = ClearedTokens]_vars

\* the same for a failure that finds the debounce flag off
C25_OutsideTheWindow ==
  [][(EndsInAuthFailure /\ ~sessionInvalidated) => tokens' = ClearedTokens]_vars


\* ---------------------------------------------------------------- C26
\* in this step the first data request of the observed call throws
FirstSendThrew ==
  /\ calls[Observed].pc = "data"
  /\ calls'[Observed].pc = "done"
  /\ calls'[Observed].result.type = "error"
\* in this step the retry of the observed call throws
RetrySendThrew ==
  /\ calls[Observed].pc = "retry"
  /\ RetryThrew(calls'[Observed])
\* the step neither clears the tokens nor shows the session-expired message
SessionUntouched == tokens' = tokens /\ notices' = notices /\ tier' = tier

\* C26: a network error thrown by a data request of api(), the first send or the
\* retry after a successful reactive refresh, never clears the tokens and never
\* triggers the session-expired notification.
C26_NetworkErrorKeepsSession ==
  [][(FirstSendThrew \/ RetrySendThrew) => SessionUntouched]_vars

\* the first send's part of C26
C26_FirstSendAlone ==
  [][FirstSendThrew => SessionUntouched]_vars


\* ---------------------------------------------------------------- C27
\* the directory fetch c was started before the session invalidation whose
\* timer is still pending (that invalidation ran at d - DebounceMs)
StartedBeforeInvalidation(c) ==
  \E d \in timers : calls[c].t0 < d - DebounceMs
\* in this step the body of fetch c arrives and getFactionDirectory goes on
\* from line 295
BodyArrives(c) == calls[c].dpc = "json" /\ calls'[c].dpc = "done"

\* C27: after an invalidation the directory cache stays the empty snapshot until
\* a getFactionDirectory() call started after it completes; a fetch that was in
\* flight when the invalidation ran never repopulates the cache.
C27_InFlightFetchStoresNothing ==
  [][\A c \in Calls :
       (BodyArrives(c) /\ StartedBeforeInvalidation(c) /\ factionDirectoryCache = EmptyCache)
          => factionDirectoryCache' = EmptyCache]_vars


\* ---------------------------------------------------------------- C28
\* in this step the response to a commit of the roster draft arrives
CommitAnswered == screen = "roster" /\ modal'.commits = modal.commits - 1
\* the step leaves the working map as it is; if the modal stays open (the
\* commit failed) the button is enabled, and the commit that may follow sends
\* the payload of the same map
FailureKeepsDraft ==
  /\ rosterState' = rosterState
  /\ modal'.open => (~saveDisabled' /\ Payload(rosterState') = Payload(rosterState))
\* the roster modal is closed: the draft is discarded
Discarded == screen = "roster" /\ ~modal.open
\* no commit is sent and the working map is touched by no add, remove or
\* update (the response of loadInitial(), if still due, is not one of them)
NothingFurther ==
  /\ ~modal'.open
  /\ sent' = sent
  /\ rosterState' # rosterState => (modal.load = "wait" /\ modal'.load = "done")

C29_OneCommitInFlight ==
  screen = "roster" => modal.commits <= 1


\* ---------------------------------------------------------------- C30
\* in this step the response to the initial load arrives
BaselineArrives == screen # "none" /\ modal.load = "wait" /\ modal'.load = "done"
\* the working attributes of key k on the open screen
WorkingAttributes(rs, k) == IF screen = "roster" THEN rs[k].affiliation ELSE rs[k]
\* every key the working set held before the step is still in it, not removed,
\* with its attributes
NothingDiscarded ==
  \A k \in WorkingKeys :
     /\ k \in DOMAIN rosterState'
     /\ (screen = "roster" => ~rosterState'[k].isRemoved)
     /\ WorkingAttributes(rosterState', k) = WorkingAttributes(rosterState, k)

\* C30: the baseline is applied once and before any user mutation takes
\* effect: what an add, remove or update has put into the working set is never
\* discarded by the arrival of the initial baseline response, however late.
C30_BaselineDiscardsNothing ==
  [][BaselineArrives => NothingDiscarded]_vars

====
